---------------------------- MODULE Spec2Model ----------------------------
(***************************************************************************)
(* A model of the MySQL query tool (tools/mysql-query.py): the process-wide *)
(* engine cache, the pooled connections of each engine, and the generator  *)
(* MySQLQueryTool._invoke run by several overlapping invocations.           *)
(*                                                                         *)
(* Text is modelled as sequences of one-character strings, so that strip,  *)
(* upper, startswith, the substring test, the f-string key and the         *)
(* statement texts are computed as the Python code computes them.          *)
(***************************************************************************)
EXTENDS Integers, Sequences, FiniteSets, TLC

(***************************************************************************)
(* Bounds of the model.                                                    *)
(***************************************************************************)
\* Number of invocations of _invoke the host dispatches (they may overlap).
NumInv == 2
\* Rows of the queried table range over 0..MaxRows.
MaxRows == 2

(***************************************************************************)
(* Program constants.                                                      *)
(***************************************************************************)
DefaultPort == 3306
DefaultPage == 1
DefaultPageSize == 10
MaxPageSize == 100
PoolSize == 5
MaxOverflow == 10

(***************************************************************************)
(* Text: Python str operations.                                            *)
(***************************************************************************)
LowerAlpha ==
    <<"a", "b", "c", "d", "e", "f", "g", "h", "i", "j", "k", "l", "m",
      "n", "o", "p", "q", "r", "s", "t", "u", "v", "w", "x", "y", "z">>

UpperAlpha ==
    <<"A", "B", "C", "D", "E", "F", "G", "H", "I", "J", "K", "L", "M",
      "N", "O", "P", "Q", "R", "S", "T", "U", "V", "W", "X", "Y", "Z">>

Digits == <<"0", "1", "2", "3", "4", "5", "6", "7", "8", "9">>

Whitespace == {" ", "\t", "\n"}

\* str.upper() on one character.
UpperChar(c) ==
    IF \E k \in 1..26 : LowerAlpha[k] = c
    THEN UpperAlpha[CHOOSE k \in 1..26 : LowerAlpha[k] = c]
    ELSE c

\* str.upper()
StrUpper(s) == [k \in 1..Len(s) |-> UpperChar(s[k])]

\* str.strip(): drops the leading and the trailing whitespace.
StrStrip(s) ==
    LET keep == {k \in 1..Len(s) : s[k] \notin Whitespace}
    IN  IF keep = {} THEN <<>>
        ELSE LET lo == CHOOSE k \in keep : \A j \in keep : k <= j
                 hi == CHOOSE k \in keep : \A j \in keep : k >= j
             IN  SubSeq(s, lo, hi)

\* str.startswith(prefix)
StartsWith(s, prefix) ==
    /\ Len(prefix) <= Len(s)
    /\ SubSeq(s, 1, Len(prefix)) = prefix

\* the Python test `sub in s` on two strings
Contains(s, sub) ==
    \E k \in 0..(Len(s) - Len(sub)) : SubSeq(s, k + 1, k + Len(sub)) = sub

\* str(n) of an int: decimal digits, '-' for a negative number.
RECURSIVE NatToStr(_)
NatToStr(n) ==
    IF n < 10 THEN <<Digits[n + 1]>>
    ELSE NatToStr(n \div 10) \o <<Digits[(n % 10) + 1]>>

IntToStr(n) == IF n < 0 THEN <<"-">> \o NatToStr(-n) ELSE NatToStr(n)

IsDigit(c) == \E k \in 1..10 : Digits[k] = c

DigitVal(c) == (CHOOSE k \in 1..10 : Digits[k] = c) - 1

RECURSIVE DigitsToNat(_)
DigitsToNat(s) ==
    IF s = <<>> THEN 0
    ELSE 10 * DigitsToNat(SubSeq(s, 1, Len(s) - 1)) + DigitVal(s[Len(s)])

(***************************************************************************)
(* Python values of the untyped tool_parameters dictionary.                *)
(*   t = "int": the int n        t = "str": the string s                   *)
(*   t = "float": the float n/10 t = "inf": float('inf')                   *)
(*   t = "none": None            t = "absent": the key is not in the dict  *)
(***************************************************************************)
PyInt(n) == [t |-> "int", s |-> <<>>, n |-> n]
PyStr(s) == [t |-> "str", s |-> s, n |-> 0]
PyFloat(tenths) == [t |-> "float", s |-> <<>>, n |-> tenths]
PyInf == [t |-> "inf", s |-> <<>>, n |-> 0]
PyNone == [t |-> "none", s |-> <<>>, n |-> 0]
PyAbsent == [t |-> "absent", s |-> <<>>, n |-> 0]
PyBool(b) == [t |-> "bool", s |-> <<>>, n |-> IF b THEN 1 ELSE 0]
PyBytes(s) == [t |-> "bytes", s |-> s, n |-> 0]
PyDecimal(tenths) == [t |-> "decimal", s |-> <<>>, n |-> tenths]

\* dict.get(key, default)
DictGet(v, default) == IF v.t = "absent" THEN default ELSE v

Converted(n) == [ok |-> TRUE, exc |-> "", n |-> n]
Raised(exc) == [ok |-> FALSE, exc |-> exc, n |-> 0]

\* int(s) of a string: surrounding whitespace, an optional sign, digits.
IntOfStr(s) ==
    LET b == StrStrip(s)
        signed == b # <<>> /\ b[1] \in {"-", "+"}
        d == IF signed THEN Tail(b) ELSE b
    IN  IF d # <<>> /\ \A k \in 1..Len(d) : IsDigit(d[k])
        THEN Converted(IF signed /\ b[1] = "-" THEN -DigitsToNat(d)
                       ELSE DigitsToNat(d))
        ELSE Raised("ValueError")

\* The builtin int(v): truncates a float toward zero, raises ValueError for
\* a string that is no integer literal, TypeError for None and OverflowError
\* for an infinite float.
PyIntOf(v) ==
    CASE v.t = "int" -> Converted(v.n)
      [] v.t = "float" -> Converted(IF v.n >= 0 THEN v.n \div 10
                                    ELSE -((-v.n) \div 10))
      [] v.t = "str" -> IntOfStr(v.s)
      [] v.t = "inf" -> Raised("OverflowError")
      [] OTHER -> Raised("TypeError")

\* The text an f-string gives for a value: str(v).
PyFormat(v) ==
    CASE v.t = "int" -> IntToStr(v.n)
      [] v.t = "str" -> v.s
      [] OTHER -> <<"N", "o", "n", "e">>

\* Python truthiness of a value (`not v` is its negation).
PyTruthy(v) ==
    CASE v.t = "int" -> v.n # 0
      [] v.t = "float" -> v.n # 0
      [] v.t = "str" -> v.s # <<>>
      [] v.t = "inf" -> TRUE
      [] OTHER -> FALSE

Max(a, b) == IF a >= b THEN a ELSE b
Min(a, b) == IF a <= b THEN a ELSE b

(***************************************************************************)
(* Texts of the program.                                                   *)
(***************************************************************************)
SelectWord == <<"S", "E", "L", "E", "C", "T">>

Directive ==
    <<"S", "Q", "L", "_", "C", "A", "L", "C", "_",
      "F", "O", "U", "N", "D", "_", "R", "O", "W", "S">>

CountPrefix ==
    <<"S", "E", "L", "E", "C", "T", " ", "C", "O", "U", "N", "T", "(", "1",
      ")", " ", "F", "R", "O", "M", " ", "(">>

CountSuffix ==
    <<")", " ", "A", "S", " ", "t", "o", "t", "a", "l", "_", "c", "o", "u",
      "n", "t">>

LimitWord == <<" ", "L", "I", "M", "I", "T", " ">>

OffsetWord == <<" ", "O", "F", "F", "S", "E", "T", " ">>

FoundRowsQuery ==
    <<"S", "E", "L", "E", "C", "T", " ", "F", "O", "U", "N", "D", "_", "R",
      "O", "W", "S", "(", ")">>

\* f"{host}:{port}:{user}:{database}"
GetConnectionKey(host, port, user, database) ==
    PyFormat(host) \o <<":">> \o PyFormat(port) \o <<":">> \o PyFormat(user)
        \o <<":">> \o PyFormat(database)

\* query.strip().upper().startswith("SELECT")
IsSelectQuery(query) == StartsWith(StrUpper(StrStrip(query)), SelectWord)

\* "SQL_CALC_FOUND_ROWS" in query: a test that forgets .upper().
HasDirectiveCaseSensitive(query) == Contains(query, Directive)

\* "SQL_CALC_FOUND_ROWS" in query.upper()
HasDirective(query) == Contains(StrUpper(query), Directive)

\* f"SELECT COUNT(1) FROM ({query}) AS total_count"
CountQuery(query) == CountPrefix \o query \o CountSuffix

\* f"{query} LIMIT {offset} OFFSET {pagesize}": the two numbers exchanged.
PaginatedQuerySwapped(query, pagesize, offset) ==
    query \o LimitWord \o IntToStr(offset) \o OffsetWord \o IntToStr(pagesize)

\* f"{query} LIMIT {pagesize} OFFSET {offset}"
PaginatedQuery(query, pagesize, offset) ==
    query \o LimitWord \o IntToStr(pagesize) \o OffsetWord \o IntToStr(offset)

\* max(1, int(page))
ClampPage(n) == Max(1, n)

\* max(1, min(100, int(pagesize)))
ClampPageSize(n) == Max(1, Min(MaxPageSize, n))

\* (page - 1) * pagesize
PageOffset(page, pagesize) == (page - 1) * pagesize

(***************************************************************************)
(* Messages handed to the host by create_text_message.  The tag stands for *)
(* the text of the source:                                                 *)
(*   "empty_query"        查询语句不能为空                                 *)
(*   "invalid_pagination" 分页参数无效                                     *)
(*   "select_only"        只支持SELECT查询                                 *)
(*   "count_failed"       COUNT查询失败: ...                               *)
(*   "page_failed"        分页查询失败: ...                                *)
(*   "query_failed"       查询失败: ...                                    *)
(*   "found_rows_failed"  获取总记录数失败: ...                            *)
(*   "processing_failed"  处理结果集失败: ...                              *)
(*   "connection_failed"  数据库连接失败: ...                              *)
(*   "execution_failed"   查询执行失败: ...                                *)
(*   "result"             the JSON text of {data, total, page, pagesize}   *)
(***************************************************************************)
TextMessage(tag, detail) ==
    [tag |-> tag, detail |-> detail, data |-> <<>>, total |-> 0,
     page |-> 0, pagesize |-> 0]

ResultMessage(rows, total, page, pagesize) ==
    [tag |-> "result", detail |-> "", data |-> rows, total |-> total,
     page |-> page, pagesize |-> pagesize]

(***************************************************************************)
(* The database server, as the statements of the program see it: every     *)
(* caller query selects the rows 1..nrows of one table, in that order.     *)
(***************************************************************************)
\* The greatest k with sub at s[k..], 0 when there is none.
LastIndexOf(s, sub) ==
    LET at == {k \in 1..(Len(s) - Len(sub) + 1) :
                  SubSeq(s, k, k + Len(sub) - 1) = sub}
    IN  IF at = {} THEN 0 ELSE CHOOSE k \in at : \A j \in at : k >= j

\* The number after the last " LIMIT " of a statement.
DbLimit(sql) ==
    LET kl == LastIndexOf(sql, LimitWord)
        ko == LastIndexOf(sql, OffsetWord)
    IN  DigitsToNat(SubSeq(sql, kl + Len(LimitWord), ko - 1))

\* The number after the last " OFFSET " of a statement.
DbOffset(sql) ==
    LET ko == LastIndexOf(sql, OffsetWord)
    IN  DigitsToNat(SubSeq(sql, ko + Len(OffsetWord), Len(sql)))

\* The rows a "<query> LIMIT l OFFSET o" statement returns from n rows.
DbPageRows(sql, n) ==
    LET lo == DbOffset(sql) + 1
        hi == Min(DbOffset(sql) + DbLimit(sql), n)
    IN  [k \in 1..Max(0, hi - lo + 1) |-> lo + k - 1]

IsCountStatement(sql) == StartsWith(sql, CountPrefix)

\* What a successfully executed statement returns: its rows, and the value
\* of its first column of its first row (Result.scalar()).
DbResult(sql, n, found) ==
    CASE sql = FoundRowsQuery -> [rows |-> <<found>>, scalar |-> found]
      [] IsCountStatement(sql) -> [rows |-> <<n>>, scalar |-> n]
      [] OTHER -> [rows |-> DbPageRows(sql, n), scalar |-> 0]

\* The server honours SQL_CALC_FOUND_ROWS only as a modifier of the SELECT
\* keyword: the word that follows SELECT, in any letter case.  The same
\* letters elsewhere in the statement (a literal, an alias, a comment) are
\* not the modifier.
DbCalcFoundRows(sql) ==
    StartsWith(StrUpper(StrStrip(sql)), SelectWord \o <<" ">> \o Directive \o <<" ">>)

\* The session's FOUND_ROWS() value after a statement: the unlimited row
\* count when the statement carries the modifier; else the number of rows
\* the statement found up to the end of its LIMIT window, or the number of
\* rows it returned when it has no LIMIT.
DbFoundRows(sql, n, found) ==
    IF sql = FoundRowsQuery \/ IsCountStatement(sql)
    THEN Len(DbResult(sql, n, found).rows)
    ELSE IF DbCalcFoundRows(sql) THEN n
    ELSE Min(n, DbOffset(sql) + DbLimit(sql))

(***************************************************************************)
(* The rows the driver hands to the program.  A driver is described by     *)
(*   kind     "mapping"    rows have ._mapping and dict() of it works      *)
(*            "broken"     rows have ._mapping and dict() of it raises     *)
(*            "named"      no ._mapping; row[column] and row[idx] work     *)
(*            "positional" no ._mapping; row[column] raises, row[idx]      *)
(*                         works for the positions the row has             *)
(*   columns  what result.keys() iterates over                             *)
(*   values   the values every row carries after its row number            *)
(*   indexable  whether result.keys() supports column_names[i] (a list     *)
(*            does, a keys view does not)                                  *)
(* A record (a dict) is the sequence of its items [k, v] in insertion      *)
(* order.                                                                  *)
(***************************************************************************)
DriverRow(d, r) == <<PyInt(r)>> \o d.values

Built(rec) == [ok |-> TRUE, rec |-> rec]

ConversionRaised == [ok |-> FALSE, rec |-> <<>>]

\* str(value) of a value that is neither None, str, int, float nor bool.
PyStrText(v) ==
    CASE v.t = "bytes" -> <<"b", "'">> \o v.s \o <<"'">>
      [] v.t = "decimal" ->
            (IF v.n < 0 THEN <<"-">> ELSE <<>>)
                \o NatToStr((IF v.n < 0 THEN -v.n ELSE v.n) \div 10) \o <<".">>
                \o NatToStr((IF v.n < 0 THEN -v.n ELSE v.n) % 10)
      [] OTHER -> PyFormat(v)

\* A replacement that leaves a Decimal as it is.
JsonSafeValueKeepsDecimal(v) ==
    IF v.t \in {"none", "str", "int", "float", "inf", "bool", "decimal"} THEN v
    ELSE PyStr(PyStrText(v))

\* Lines 218-220: a value that is not None and not an instance of
\* (str, int, float, bool) is replaced by str(value).
JsonSafeValue(v) ==
    IF v.t \in {"none", "str", "int", "float", "inf", "bool"} THEN v
    ELSE PyStr(PyStrText(v))

JsonSafe(rec) ==
    [x \in 1..Len(rec) |-> [k |-> rec[x].k, v |-> JsonSafeValue(rec[x].v)]]

\* Line 199: dict(row._mapping)
MappingDict(d, row) ==
    IF d.kind = "broken" THEN ConversionRaised
    ELSE Built([x \in 1..Min(Len(d.columns), Len(row)) |->
                   [k |-> d.columns[x], v |-> row[x]]])

\* A lookup loop that stops at the shorter of columns and row, as zip() does.
LookupDictTruncated(d, row) ==
    Built([x \in 1..Min(Len(d.columns), Len(row)) |->
              [k |-> d.columns[x], v |-> row[x]]])

\* Lines 202-210: row[column], else row[idx], else None, for every column.
LookupDict(d, row) ==
    Built([x \in 1..Len(d.columns) |->
              [k |-> d.columns[x],
               v |-> IF x <= Len(row) THEN row[x] ELSE PyNone]])

\* Lines 214-215: list(row), paired with column_names[i] while
\* i < len(column_names); column_names[i] raises TypeError on a keys view.
ListDict(d, row) ==
    IF row # <<>> /\ ~d.indexable THEN ConversionRaised
    ELSE Built([x \in 1..Min(Len(d.columns), Len(row)) |->
                   [k |-> d.columns[x], v |-> row[x]]])

\* Lines 196-222 for one row.
RowDict(d, row) ==
    LET first == IF d.kind \in {"mapping", "broken"} THEN MappingDict(d, row)
                 ELSE LookupDict(d, row)
        built == IF first.ok THEN first ELSE ListDict(d, row)
    IN  IF built.ok THEN Built(JsonSafe(built.rec)) ELSE ConversionRaised

\* Lines 188-222: the list rows built from the result whose rows are the
\* table rows numbered ids.
NormalizedRows(d, ids) ==
    LET each == [x \in 1..Len(ids) |-> RowDict(d, DriverRow(d, ids[x]))]
    IN  [ok |-> \A x \in 1..Len(ids) : each[x].ok,
         rows |-> [x \in 1..Len(ids) |-> each[x].rec]]

\* The driver of the installed SQLAlchemy on a one-column result.
PlainDriver ==
    [kind |-> "mapping", columns |-> <<"id">>, values |-> <<>>,
     indexable |-> FALSE]

(***************************************************************************)
(* State.                                                                  *)
(***************************************************************************)
Inv == 1..NumInv

VARIABLES
    ENGINE_CACHE,  \* the module-level dict, as its set of items [key, engine]
    engines,       \* every Engine create_engine has returned, in creation order
    conns,         \* every DB-API connection the pools have opened
    served,        \* history: the requests _get_engine has answered, with the engine
    nrows,         \* number of rows of the queried table
    driver,        \* what the rows of a result look like to the program
    pc,            \* where each invocation of _invoke stands
    params,        \* tool_parameters of each invocation
    page,          \* the local page after line 122
    pagesize,      \* the local pagesize after line 123
    key,           \* the local key of _get_engine
    engine,        \* the local engine of _invoke (0: not assigned)
    conn,          \* the connection _safe_connection holds (0: none)
    stmts,         \* the statement texts the invocation has executed, in order
    total,         \* the local total
    totalFrom,     \* whose statement set the count that total was read from
    result,        \* the rows of the local result
    out,           \* the message the invocation is handing to the host at a yield
    emitted,       \* how many messages the invocation has handed to the host
    raised         \* the exception that left _invoke ("" when none)

vars ==
    <<ENGINE_CACHE, engines, conns, served, nrows, driver, pc, params, page, pagesize, key,
      engine, conn, stmts, total, totalFrom, result, out, emitted, raised>>

shared == <<ENGINE_CACHE, engines, conns, nrows, driver>>

locals == <<params, page, pagesize, key, engine, stmts, total, totalFrom, result>>

Init ==
    /\ ENGINE_CACHE = {}
    /\ engines = <<>>
    /\ conns = <<>>
    /\ served = {}
    /\ nrows = MaxRows
    /\ driver = PlainDriver
    /\ pc = [i \in Inv |-> "idle"]
    /\ params = [i \in Inv |-> <<>>]
    /\ page = [i \in Inv |-> 0]
    /\ pagesize = [i \in Inv |-> 0]
    /\ key = [i \in Inv |-> <<>>]
    /\ engine = [i \in Inv |-> 0]
    /\ conn = [i \in Inv |-> 0]
    /\ stmts = [i \in Inv |-> <<>>]
    /\ total = [i \in Inv |-> 0]
    /\ totalFrom = [i \in Inv |-> 0]
    /\ result = [i \in Inv |-> <<>>]
    /\ out = [i \in Inv |-> <<>>]
    /\ emitted = [i \in Inv |-> 0]
    /\ raised = [i \in Inv |-> ""]

(***************************************************************************)
(* The dict ENGINE_CACHE.                                                  *)
(***************************************************************************)
\* key in ENGINE_CACHE
CacheHas(k) == \E it \in ENGINE_CACHE : it.key = k

\* ENGINE_CACHE[key]
CacheGet(k) == (CHOOSE it \in ENGINE_CACHE : it.key = k).engine

\* ENGINE_CACHE[key] = engine: the dict after the assignment
CachePut(k, e) ==
    {it \in ENGINE_CACHE : it.key # k} \cup {[key |-> k, engine |-> e]}

(***************************************************************************)
(* The locals of _invoke read from tool_parameters (lines 105-112).        *)
(***************************************************************************)
EmptyStr == PyStr(<<>>)

ParamHost(i) == DictGet(params[i].host, EmptyStr)
ParamPort(i) == DictGet(params[i].port, PyInt(DefaultPort))
ParamUser(i) == DictGet(params[i].user, EmptyStr)
ParamPassword(i) == DictGet(params[i].password, EmptyStr)
ParamDatabase(i) == DictGet(params[i].database, EmptyStr)
ParamQuery(i) == DictGet(params[i].query, EmptyStr)
Query(i) == ParamQuery(i).s

(***************************************************************************)
(* The QueuePool of an engine (pool_size=5, max_overflow=10).              *)
(***************************************************************************)
ConnIds == 1..Len(conns)

IdleConns(e) ==
    {c \in ConnIds : conns[c].engine = e /\ conns[c].open /\ conns[c].holder = 0}

CheckedOut(e) ==
    {c \in ConnIds : conns[c].engine = e /\ conns[c].open /\ conns[c].holder # 0}

PoolExhausted(e) ==
    /\ IdleConns(e) = {}
    /\ Cardinality(CheckedOut(e)) >= PoolSize + MaxOverflow

NewConn(e, i) ==
    [engine |-> e, holder |-> i, open |-> TRUE, found |-> [by |-> 0, n |-> 0]]

\* Connection.close(): the connection goes back to the pool; the pool keeps
\* at most pool_size idle connections and closes the overflow.
ReleasedConns(c) ==
    [conns EXCEPT ![c].holder = 0,
                  ![c].open = Cardinality(IdleConns(conns[c].engine)) < PoolSize]

\* A _safe_connection whose finally does not close the connection.
SafeConnectionExitLeaks(i) ==
    /\ conns' = conns
    /\ conn' = [conn EXCEPT ![i] = 0]

\* _safe_connection's finally: `if connection: connection.close()`.
SafeConnectionExit(i) ==
    /\ conns' = IF conn[i] # 0 THEN ReleasedConns(conn[i]) ELSE conns
    /\ conn' = [conn EXCEPT ![i] = 0]

\* A statement sent through the engine instead of through conn: it runs on
\* the lowest-numbered connection of the engine's pool.
EngineFirstConn(i) ==
    CHOOSE c \in ConnIds :
        /\ conns[c].engine = engine[i]
        /\ \A d \in ConnIds : conns[d].engine = engine[i] => c <= d

\* The connection a statement of invocation i is executed on: the conn
\* that `with self._safe_connection(engine) as conn` bound.
StatementConn(i) == conn[i]

(***************************************************************************)
(* Steps of one invocation.                                                *)
(***************************************************************************)
\* yield self.create_text_message(...)
Yield(i, msg, at) ==
    /\ out' = [out EXCEPT ![i] = <<msg>>]
    /\ emitted' = [emitted EXCEPT ![i] = @ + 1]
    /\ pc' = [pc EXCEPT ![i] = at]

\* Lines 105-127: read the parameters, reject an empty query, convert and
\* clamp page and pagesize.  Nothing here is inside a try that catches
\* AttributeError or OverflowError.  The invocations are numbered in the
\* order the host dispatches them.
Invoke(i, p) ==
    /\ pc[i] = "idle"
    /\ \A j \in Inv : j < i => pc[j] # "idle"
    /\ params' = [params EXCEPT ![i] = p]
    /\ LET query == DictGet(p.query, EmptyStr)
           pg == PyIntOf(DictGet(p.page, PyInt(DefaultPage)))
           ps == PyIntOf(DictGet(p.pagesize, PyInt(DefaultPageSize)))
           bad == IF ~pg.ok THEN pg.exc ELSE IF ~ps.ok THEN ps.exc ELSE ""
       IN  IF ~PyTruthy(query) \/ (query.t = "str" /\ StrStrip(query.s) = <<>>)
           THEN /\ Yield(i, TextMessage("empty_query", ""), "yield_out")
                /\ UNCHANGED <<page, pagesize, raised>>
           ELSE IF query.t # "str"
           THEN /\ raised' = [raised EXCEPT ![i] = "AttributeError"]
                /\ pc' = [pc EXCEPT ![i] = "done"]
                /\ UNCHANGED <<page, pagesize, out, emitted>>
           ELSE IF bad \in {"ValueError", "TypeError"}
           THEN /\ Yield(i, TextMessage("invalid_pagination", ""), "yield_out")
                /\ UNCHANGED <<page, pagesize, raised>>
           ELSE IF bad # ""
           THEN /\ raised' = [raised EXCEPT ![i] = bad]
                /\ pc' = [pc EXCEPT ![i] = "done"]
                /\ UNCHANGED <<page, pagesize, out, emitted>>
           ELSE /\ page' = [page EXCEPT ![i] = ClampPage(pg.n)]
                /\ pagesize' = [pagesize EXCEPT ![i] = ClampPageSize(ps.n)]
                /\ pc' = [pc EXCEPT ![i] = "get_engine"]
                /\ UNCHANGED <<out, emitted, raised>>
    /\ UNCHANGED <<shared, served, key, engine, conn, stmts, total, totalFrom, result>>

\* _get_engine, lines 28-30: build the key and test `key not in ENGINE_CACHE`.
GetEngineLookup(i) ==
    /\ pc[i] = "get_engine"
    /\ LET k == GetConnectionKey(ParamHost(i), ParamPort(i), ParamUser(i),
                                 ParamDatabase(i))
       IN  /\ key' = [key EXCEPT ![i] = k]
           /\ pc' = [pc EXCEPT ![i] =
                        IF CacheHas(k) THEN "return_engine" ELSE "create_engine"]
    /\ UNCHANGED <<shared, served, params, page, pagesize, engine, conn, stmts,
                   total, totalFrom, result, out, emitted, raised>>

\* _get_engine, lines 31-52: URL.create(..., port=int(port), ...),
\* create_engine(...) and ENGINE_CACHE[key] = engine.  An exception of
\* int(port) leaves _get_engine and is caught at line 251.
CreateEngine(i) ==
    /\ pc[i] = "create_engine"
    /\ LET port == PyIntOf(ParamPort(i))
       IN  IF port.ok
           THEN /\ engines' = Append(engines,
                        [host |-> PyFormat(ParamHost(i)), port |-> port.n,
                         username |-> PyFormat(ParamUser(i)),
                         password |-> PyFormat(ParamPassword(i)),
                         database |-> PyFormat(ParamDatabase(i))])
                /\ ENGINE_CACHE' = CachePut(key[i], Len(engines) + 1)
                /\ pc' = [pc EXCEPT ![i] = "return_engine"]
                /\ UNCHANGED <<out, emitted>>
           ELSE /\ Yield(i, TextMessage("execution_failed", port.exc), "yield_out")
                /\ UNCHANGED <<engines, ENGINE_CACHE>>
    /\ UNCHANGED <<conns, served, nrows, driver, params, page, pagesize, key, engine,
                   conn, stmts, total, totalFrom, result, raised>>

\* The ConnectionIdentity (host, port, user, database) of invocation i's
\* request, each field as its text.
Identity(i) ==
    [host |-> PyFormat(ParamHost(i)), port |-> PyFormat(ParamPort(i)),
     user |-> PyFormat(ParamUser(i)), database |-> PyFormat(ParamDatabase(i))]

\* _get_engine line 54 (return ENGINE_CACHE[key]) and _invoke lines 131-137:
\* the SELECT check follows the engine lookup.
ReturnEngine(i) ==
    /\ pc[i] = "return_engine"
    /\ engine' = [engine EXCEPT ![i] = CacheGet(key[i])]
    /\ served' = served \cup {[identity |-> Identity(i),
                               password |-> PyFormat(ParamPassword(i)),
                               engine |-> CacheGet(key[i])]}
    /\ IF IsSelectQuery(Query(i))
       THEN /\ pc' = [pc EXCEPT ![i] = "connect"]
            /\ UNCHANGED <<out, emitted>>
       ELSE Yield(i, TextMessage("select_only", ""), "yield_out")
    /\ UNCHANGED <<shared, params, page, pagesize, key, conn, stmts, total,
                   totalFrom, result, raised>>

\* _safe_connection line 61, engine.connect(): the pool hands out an idle
\* connection or opens a new one; opening may fail (OperationalError, caught
\* at line 246); an exhausted pool raises its TimeoutError after
\* pool_timeout (caught at line 251).  Line 144 then chooses the strategy.
Connect(i) ==
    /\ pc[i] = "connect"
    /\ LET e == engine[i]
           first == IF ~HasDirective(Query(i)) THEN "exec_count"
                    ELSE "exec_single_pass"
       IN  IF PoolExhausted(e)
           THEN /\ Yield(i, TextMessage("execution_failed", "TimeoutError"),
                         "yield_out")
                /\ UNCHANGED <<conns, conn>>
           ELSE \/ \E c \in IdleConns(e) :
                     /\ conns' = [conns EXCEPT ![c].holder = i]
                     /\ conn' = [conn EXCEPT ![i] = c]
                     /\ pc' = [pc EXCEPT ![i] = first]
                     /\ UNCHANGED <<out, emitted>>
                \/ /\ IdleConns(e) = {}
                   /\ conns' = Append(conns, NewConn(e, i))
                   /\ conn' = [conn EXCEPT ![i] = Len(conns) + 1]
                   /\ pc' = [pc EXCEPT ![i] = first]
                   /\ UNCHANGED <<out, emitted>>
                \/ /\ Yield(i, TextMessage("connection_failed", "OperationalError"),
                            "yield_out")
                   /\ UNCHANGED <<conns, conn>>
    /\ UNCHANGED <<ENGINE_CACHE, engines, served, nrows, driver, params, page, pagesize,
                   key, engine, stmts, total, totalFrom, result, raised>>

\* An _execute_query that sends the statement a second time when the first
\* attempt raised.
ExecuteQueryRetries(i, sql, ok) ==
    /\ stmts' = [stmts EXCEPT ![i] = IF ok THEN Append(@, sql)
                                     ELSE Append(Append(@, sql), sql)]
    /\ conns' = [conns EXCEPT
                    ![conn[i]].found =
                        IF ok THEN [by |-> i, n |-> DbFoundRows(sql, nrows, @.n)]
                        ELSE @]

\* _execute_query (lines 67-81) of statement sql by invocation i: line 71
\* sends it on the connection; a successful statement updates the session's
\* FOUND_ROWS() value; every exception is turned into the flag False.
ExecuteQuery(i, sql, ok) ==
    /\ stmts' = [stmts EXCEPT ![i] = Append(@, sql)]
    /\ conns' = [conns EXCEPT
                    ![StatementConn(i)].found =
                        IF ok THEN [by |-> i, n |-> DbFoundRows(sql, nrows, @.n)]
                        ELSE @]

\* What the server returns for sql on invocation i's connection.
Returned(i, sql) == DbResult(sql, nrows, conns[StatementConn(i)].found.n)

\* count_result.scalar() raises inside the with block (lines 155, 183).
ScalarRaises(i) ==
    /\ pc' = [pc EXCEPT ![i] = "raising"]
    /\ UNCHANGED <<total, totalFrom, out, emitted>>

\* Lines 147-155: the count statement of the two-query strategy.
ExecCount(i) ==
    /\ pc[i] = "exec_count"
    /\ LET sql == CountQuery(Query(i))
       IN  \/ /\ ExecuteQuery(i, sql, FALSE)
              /\ Yield(i, TextMessage("count_failed", "error"), "yield_with")
              /\ UNCHANGED <<total, totalFrom>>
           \/ /\ ExecuteQuery(i, sql, TRUE)
              /\ total' = [total EXCEPT ![i] = Returned(i, sql).scalar]
              /\ totalFrom' = [totalFrom EXCEPT ![i] = i]
              /\ pc' = [pc EXCEPT ![i] = "exec_page"]
              /\ UNCHANGED <<out, emitted>>
           \/ /\ ExecuteQuery(i, sql, TRUE)
              /\ ScalarRaises(i)
    /\ UNCHANGED <<ENGINE_CACHE, engines, served, nrows, driver, params, page, pagesize,
                   key, engine, conn, result, raised>>

\* Lines 158-164: the page statement of the two-query strategy.
ExecPage(i) ==
    /\ pc[i] = "exec_page"
    /\ LET sql == PaginatedQuery(Query(i), pagesize[i],
                                 PageOffset(page[i], pagesize[i]))
       IN  \/ /\ ExecuteQuery(i, sql, FALSE)
              /\ Yield(i, TextMessage("page_failed", "error"), "yield_with")
              /\ UNCHANGED result
           \/ /\ ExecuteQuery(i, sql, TRUE)
              /\ result' = [result EXCEPT ![i] = Returned(i, sql).rows]
              /\ pc' = [pc EXCEPT ![i] = "process"]
              /\ UNCHANGED <<out, emitted>>
    /\ UNCHANGED <<ENGINE_CACHE, engines, served, nrows, driver, params, page, pagesize,
                   key, engine, conn, total, totalFrom, raised>>

\* Lines 167-173: the page statement of the single-pass strategy.
ExecSinglePass(i) ==
    /\ pc[i] = "exec_single_pass"
    /\ LET sql == PaginatedQuery(Query(i), pagesize[i],
                                 PageOffset(page[i], pagesize[i]))
       IN  \/ /\ ExecuteQuery(i, sql, FALSE)
              /\ Yield(i, TextMessage("query_failed", "error"), "yield_with")
              /\ UNCHANGED result
           \/ /\ ExecuteQuery(i, sql, TRUE)
              /\ result' = [result EXCEPT ![i] = Returned(i, sql).rows]
              /\ pc' = [pc EXCEPT ![i] = "exec_found_rows"]
              /\ UNCHANGED <<out, emitted>>
    /\ UNCHANGED <<ENGINE_CACHE, engines, served, nrows, driver, params, page, pagesize,
                   key, engine, conn, total, totalFrom, raised>>

\* Lines 176-183: SELECT FOUND_ROWS() of the single-pass strategy.
ExecFoundRows(i) ==
    /\ pc[i] = "exec_found_rows"
    /\ LET sql == FoundRowsQuery
       IN  \/ /\ ExecuteQuery(i, sql, FALSE)
              /\ Yield(i, TextMessage("found_rows_failed", "error"), "yield_with")
              /\ UNCHANGED <<total, totalFrom>>
           \/ /\ ExecuteQuery(i, sql, TRUE)
              /\ total' = [total EXCEPT ![i] = Returned(i, sql).scalar]
              /\ totalFrom' = [totalFrom EXCEPT ![i] =
                                  conns[StatementConn(i)].found.by]
              /\ pc' = [pc EXCEPT ![i] = "process"]
              /\ UNCHANGED <<out, emitted>>
           \/ /\ ExecuteQuery(i, sql, TRUE)
              /\ ScalarRaises(i)
    /\ UNCHANGED <<ENGINE_CACHE, engines, served, nrows, driver, params, page, pagesize,
                   key, engine, conn, result, raised>>

\* An exception raised inside the with block by count_result.scalar(): the
\* context manager releases the connection, then the handler of line 246
\* or of line 251 yields its message.
Unwind(i) ==
    /\ pc[i] = "raising"
    /\ SafeConnectionExit(i)
    /\ \/ Yield(i, TextMessage("connection_failed", "OperationalError"),
                "yield_out")
       \/ Yield(i, TextMessage("execution_failed", "Exception"), "yield_out")
    /\ UNCHANGED <<ENGINE_CACHE, engines, served, nrows, driver, params, page, pagesize,
                   key, engine, stmts, total, totalFrom, result, raised>>

\* Lines 186-244: the rows are converted; when that raises, line 229 yields
\* inside the with block; otherwise the with block is left (the connection
\* is released) and line 244 yields the envelope.
Process(i) ==
    /\ pc[i] = "process"
    /\ LET built == NormalizedRows(driver, result[i])
       IN  \/ /\ built.ok
              /\ SafeConnectionExit(i)
              /\ Yield(i, ResultMessage(built.rows, total[i], page[i],
                                        pagesize[i]), "yield_out")
           \/ /\ ~built.ok
              /\ Yield(i, TextMessage("processing_failed", "TypeError"),
                       "yield_with")
              /\ UNCHANGED <<conns, conn>>
           \/ /\ Yield(i, TextMessage("processing_failed", "error"),
                       "yield_with")
              /\ UNCHANGED <<conns, conn>>
    /\ UNCHANGED <<ENGINE_CACHE, engines, served, nrows, driver, params, page,
                   pagesize, key, engine, stmts, total, totalFrom, result,
                   raised>>

\* The host resumes the generator after a yield (or closes it): what follows
\* the yield is a return, or the end of _invoke; a yield inside the with
\* block runs _safe_connection's finally on the way out.  The frame and
\* its locals are gone afterwards.
Finish(i) ==
    /\ pc[i] \in {"yield_out", "yield_with"}
    /\ SafeConnectionExit(i)
    /\ pc' = [pc EXCEPT ![i] = "done"]
    /\ params' = [params EXCEPT ![i] = <<>>]
    /\ page' = [page EXCEPT ![i] = 0]
    /\ pagesize' = [pagesize EXCEPT ![i] = 0]
    /\ key' = [key EXCEPT ![i] = <<>>]
    /\ engine' = [engine EXCEPT ![i] = 0]
    /\ stmts' = [stmts EXCEPT ![i] = <<>>]
    /\ total' = [total EXCEPT ![i] = 0]
    /\ totalFrom' = [totalFrom EXCEPT ![i] = 0]
    /\ result' = [result EXCEPT ![i] = <<>>]
    /\ out' = [out EXCEPT ![i] = <<>>]
    /\ UNCHANGED <<ENGINE_CACHE, engines, served, nrows, driver, emitted, raised>>

\* Every step of invocation i after its call.
Run(i) ==
    \/ GetEngineLookup(i)
    \/ CreateEngine(i)
    \/ ReturnEngine(i)
    \/ Connect(i)
    \/ ExecCount(i)
    \/ ExecPage(i)
    \/ ExecSinglePass(i)
    \/ ExecFoundRows(i)
    \/ Unwind(i)
    \/ Process(i)
    \/ Finish(i)

(***************************************************************************)
(* Inputs.                                                                 *)
(***************************************************************************)
Request(host, port, user, password, database, query, pg, ps) ==
    [host |-> host, port |-> port, user |-> user, password |-> password,
     database |-> database, query |-> query, page |-> pg, pagesize |-> ps]

QSelect == PyStr(<<"S", "E", "L", "E", "C", "T", " ", "a">>)
QSelectLower == PyStr(<<" ", "s", "e", "l", "e", "c", "t", " ", "a", " ">>)
QDelete ==
    PyStr(<<"D", "E", "L", "E", "T", "E", " ", "F", "R", "O", "M", " ", "t">>)
QDirective ==
    PyStr(<<"S", "E", "L", "E", "C", "T", " ", "S", "Q", "L", "_", "C", "A",
            "L", "C", "_", "F", "O", "U", "N", "D", "_", "R", "O", "W", "S",
            " ", "a">>)
QDirectiveLower ==
    PyStr(<<"s", "e", "l", "e", "c", "t", " ", "s", "q", "l", "_", "c", "a",
            "l", "c", "_", "f", "o", "u", "n", "d", "_", "r", "o", "w", "s",
            " ", "a">>)
QBlank == PyStr(<<" ", "\t">>)
\* SELECT a AS sql_calc_found_rows: the directive's letters in an alias
QAlias ==
    PyStr(<<"S", "E", "L", "E", "C", "T", " ", "a", " ", "A", "S", " ", "s",
            "q", "l", "_", "c", "a", "l", "c", "_", "f", "o", "u", "n", "d",
            "_", "r", "o", "w", "s">>)

HostH == PyStr(<<"h">>)
UserU == PyStr(<<"u">>)
PassP == PyStr(<<"p">>)
DatabaseD == PyStr(<<"d">>)

\* Overlapping invocations of one identity, one per strategy.
Requests ==
    {Request(HostH, PyAbsent, UserU, PassP, DatabaseD, q, PyAbsent, PyInt(1)) :
        q \in {QSelect, QDirectiveLower}}

(***************************************************************************)
(* Spec: NumInv invocations that may overlap, from an empty ENGINE_CACHE.  *)
(***************************************************************************)
Next ==
    \E i \in Inv :
        \/ \E p \in Requests : Invoke(i, p)
        \/ Run(i)

Spec == Init /\ [][Next]_vars

(***************************************************************************)
(* SpecShared: NumInv overlapping invocations that share one engine, which *)
(* an earlier invocation of the same identity has left in ENGINE_CACHE     *)
(* (with or without an idle connection in its pool).                       *)
(***************************************************************************)
InitShared ==
    /\ ENGINE_CACHE =
          {[key |-> GetConnectionKey(HostH, PyInt(DefaultPort), UserU, DatabaseD),
            engine |-> 1]}
    /\ engines = <<[host |-> HostH.s, port |-> DefaultPort, username |-> UserU.s,
                    password |-> PassP.s, database |-> DatabaseD.s]>>
    /\ conns \in {<<>>, <<[engine |-> 1, holder |-> 0, open |-> TRUE,
                          found |-> [by |-> 0, n |-> 0]]>>}
    /\ served = {[identity |-> [host |-> HostH.s, port |-> IntToStr(DefaultPort),
                                user |-> UserU.s, database |-> DatabaseD.s],
                  password |-> PassP.s, engine |-> 1]}
    /\ nrows = MaxRows
    /\ driver = PlainDriver
    /\ pc = [i \in Inv |-> "idle"]
    /\ params = [i \in Inv |-> <<>>]
    /\ page = [i \in Inv |-> 0]
    /\ pagesize = [i \in Inv |-> 0]
    /\ key = [i \in Inv |-> <<>>]
    /\ engine = [i \in Inv |-> 0]
    /\ conn = [i \in Inv |-> 0]
    /\ stmts = [i \in Inv |-> <<>>]
    /\ total = [i \in Inv |-> 0]
    /\ totalFrom = [i \in Inv |-> 0]
    /\ result = [i \in Inv |-> <<>>]
    /\ out = [i \in Inv |-> <<>>]
    /\ emitted = [i \in Inv |-> 0]
    /\ raised = [i \in Inv |-> ""]

NextShared ==
    \E i \in Inv :
        \/ \E p \in Requests : Invoke(i, p)
        \/ GetEngineLookup(i)
        \/ ReturnEngine(i)
        \/ Connect(i)
        \/ ExecCount(i)
        \/ ExecPage(i)
        \/ ExecSinglePass(i)
        \/ ExecFoundRows(i)
        \/ Unwind(i)
        \/ Process(i)
        \/ Finish(i)

SpecShared == InitShared /\ [][NextShared]_vars

(***************************************************************************)
(* SpecSeq: NumInv invocations, none overlapping another, over requests    *)
(* that differ in their connection parameters.                             *)
(***************************************************************************)
PortText == PyStr(<<"a", "b", "c">>)

\* user "a:b" with database "c", and user "a" with database "b:c"
UserDatabases ==
    {<<PyStr(<<"a", ":", "b">>), PyStr(<<"c">>)>>,
     <<PyStr(<<"a">>), PyStr(<<"b", ":", "c">>)>>}

RegistryRequests ==
    {Request(h, pt, ud[1], pw, ud[2], q, PyAbsent, PyInt(1)) :
        h \in {HostH, EmptyStr},
        pt \in {PyAbsent, PortText},
        ud \in UserDatabases,
        pw \in {PassP, PyStr(<<"q">>)},
        q \in {QSelect, QDirectiveLower, QDelete}}

Alone(i) == \A j \in Inv \ {i} : pc[j] \in {"idle", "done"}

\* The host dispatches an invocation only when no other one is running.
InvokeAlone(i) == Alone(i) /\ \E p \in RegistryRequests : Invoke(i, p)

NextSeq ==
    \E i \in Inv :
        \/ InvokeAlone(i)
        \/ Run(i)

SpecSeq == Init /\ [][NextSeq]_vars

(***************************************************************************)
(* SpecOne: one invocation, over requests that differ in query, page and   *)
(* pagesize, on a table of 0..MaxRows rows.                                *)
(***************************************************************************)
QSelected == PyStr(<<"s", "e", "l", "e", "c", "t", "e", "d">>)

Queries ==
    {PyAbsent, PyNone, QBlank, PyInt(5), QSelect, QSelectLower, QSelected,
     QDelete, QDirective, QDirectiveLower, QAlias}

Pages ==
    {PyAbsent, PyNone, PyInf, PyInt(0), PyInt(-3), PyInt(2), PyInt(3),
     PyFloat(27), PyFloat(-27), PyStr(<<" ", "2">>), PyStr(<<"1", ".", "5">>),
     PortText}

PageSizes ==
    {PyAbsent, PyNone, PyInf, PyInt(0), PyInt(-5), PyInt(1), PyInt(2),
     PyInt(100), PyInt(101), PyFloat(19), PyStr(<<"5", "0">>), PortText}

WideRequests ==
    {Request(HostH, pt, UserU, PassP, DatabaseD, q, pg, ps) :
        pt \in {PyAbsent, PortText}, q \in Queries, pg \in Pages,
        ps \in PageSizes}

InitOne ==
    /\ ENGINE_CACHE = {}
    /\ engines = <<>>
    /\ conns = <<>>
    /\ served = {}
    /\ nrows \in 0..MaxRows
    /\ driver = PlainDriver
    /\ pc = [i \in Inv |-> "idle"]
    /\ params = [i \in Inv |-> <<>>]
    /\ page = [i \in Inv |-> 0]
    /\ pagesize = [i \in Inv |-> 0]
    /\ key = [i \in Inv |-> <<>>]
    /\ engine = [i \in Inv |-> 0]
    /\ conn = [i \in Inv |-> 0]
    /\ stmts = [i \in Inv |-> <<>>]
    /\ total = [i \in Inv |-> 0]
    /\ totalFrom = [i \in Inv |-> 0]
    /\ result = [i \in Inv |-> <<>>]
    /\ out = [i \in Inv |-> <<>>]
    /\ emitted = [i \in Inv |-> 0]
    /\ raised = [i \in Inv |-> ""]

NextOne ==
    \/ \E p \in WideRequests : Invoke(1, p)
    \/ Run(1)

SpecOne == InitOne /\ [][NextOne]_vars

(***************************************************************************)
(* SpecFull: NumInv invocations start while invocations other than these   *)
(* hold every connection the pool of their engine may open (pool_size +    *)
(* max_overflow); one of those others may finish and release its           *)
(* connection.                                                             *)
(***************************************************************************)
\* An invocation that runs elsewhere, outside Inv.
Elsewhere == NumInv + 1

FullPool ==
    [c \in 1..(PoolSize + MaxOverflow) |->
        [engine |-> 1, holder |-> Elsewhere, open |-> TRUE,
         found |-> [by |-> 0, n |-> 0]]]

FullRequests ==
    {Request(HostH, PyAbsent, UserU, PassP, DatabaseD, QSelect, pg, PyInt(1)) :
        pg \in {PyAbsent, PyInf}}

InitFull ==
    /\ ENGINE_CACHE =
          {[key |-> GetConnectionKey(HostH, PyInt(DefaultPort), UserU, DatabaseD),
            engine |-> 1]}
    /\ engines = <<[host |-> HostH.s, port |-> DefaultPort, username |-> UserU.s,
                    password |-> PassP.s, database |-> DatabaseD.s]>>
    /\ conns = FullPool
    /\ served = {[identity |-> [host |-> HostH.s, port |-> IntToStr(DefaultPort),
                                user |-> UserU.s, database |-> DatabaseD.s],
                  password |-> PassP.s, engine |-> 1]}
    /\ nrows = MaxRows
    /\ driver = PlainDriver
    /\ pc = [i \in Inv |-> "idle"]
    /\ params = [i \in Inv |-> <<>>]
    /\ page = [i \in Inv |-> 0]
    /\ pagesize = [i \in Inv |-> 0]
    /\ key = [i \in Inv |-> <<>>]
    /\ engine = [i \in Inv |-> 0]
    /\ conn = [i \in Inv |-> 0]
    /\ stmts = [i \in Inv |-> <<>>]
    /\ total = [i \in Inv |-> 0]
    /\ totalFrom = [i \in Inv |-> 0]
    /\ result = [i \in Inv |-> <<>>]
    /\ out = [i \in Inv |-> <<>>]
    /\ emitted = [i \in Inv |-> 0]
    /\ raised = [i \in Inv |-> ""]

\* The invocation elsewhere that holds the last overflow connection leaves
\* its with block: _safe_connection's finally closes the connection.
ReleaseElsewhere ==
    /\ conns[PoolSize + MaxOverflow].holder = Elsewhere
    /\ conns' = ReleasedConns(PoolSize + MaxOverflow)
    /\ UNCHANGED <<ENGINE_CACHE, engines, served, nrows, driver, pc, params,
                   page, pagesize, key, engine, conn, stmts, total, totalFrom,
                   result, out, emitted, raised>>

InvokeFull(i) == \E p \in FullRequests : Invoke(i, p)

\* The steps an invocation of FullRequests can take once called.
RunFull(i) ==
    \/ GetEngineLookup(i)
    \/ ReturnEngine(i)
    \/ Connect(i)
    \/ ExecCount(i)
    \/ ExecPage(i)
    \/ Unwind(i)
    \/ Process(i)
    \/ Finish(i)

NextFull ==
    \/ ReleaseElsewhere
    \/ \E i \in Inv :
        \/ InvokeFull(i)
        \/ RunFull(i)

SpecFull == InitFull /\ [][NextFull]_vars

\* Every acquisition and every statement returns or times out, and the host
\* keeps consuming: an invocation that can take a step eventually takes
\* one.  Nothing obliges the invocations elsewhere to release.
LiveFull == SpecFull /\ \A i \in Inv : WF_vars(RunFull(i))

(***************************************************************************)
(* SpecPw: NumInv invocations that may overlap, from an empty              *)
(* ENGINE_CACHE, with one connection identity and two passwords.           *)
(***************************************************************************)
PassQ == PyStr(<<"q">>)

PasswordRequests ==
    {Request(HostH, PyAbsent, UserU, pw, DatabaseD, q, PyAbsent, PyInt(1)) :
        pw \in {PassP, PassQ}, q \in {QSelect, QDirectiveLower}}

InvokePw(i) == \E p \in PasswordRequests : Invoke(i, p)

NextPw ==
    \E i \in Inv :
        \/ InvokePw(i)
        \/ Run(i)

SpecPw == Init /\ [][NextPw]_vars

(***************************************************************************)
(* SpecRows: one invocation of a valid request, over drivers that differ   *)
(* in the kind of their rows, the number of columns and the values of a    *)
(* row, on a table of 1..MaxRows rows.                                     *)
(***************************************************************************)
ColumnNames == <<"id", "name", "note">>

RowValues ==
    {PyNone, PyStr(<<"a">>), PyFloat(15), PyBool(TRUE), PyBytes(<<"x">>),
     PyDecimal(-15)}

ValueSeqs ==
    {<<>>} \cup {<<v>> : v \in RowValues}
        \cup {<<v, w>> : v \in {PyStr(<<"a">>), PyBytes(<<"x">>)},
                         w \in RowValues}

\* Rows with a name-to-value view carry one value per column; for the
\* other kinds the two lengths are independent.
Drivers ==
    {[kind |-> k, columns |-> SubSeq(ColumnNames, 1, 1 + Len(vs)), values |-> vs,
      indexable |-> FALSE] : k \in {"mapping", "named"}, vs \in ValueSeqs}
    \cup
    {[kind |-> k, columns |-> SubSeq(ColumnNames, 1, nc), values |-> vs,
      indexable |-> ix] :
        k \in {"positional", "broken"}, nc \in 1..Len(ColumnNames),
        vs \in ValueSeqs, ix \in BOOLEAN}

RowRequests ==
    {Request(HostH, PyAbsent, UserU, PassP, DatabaseD, q, PyAbsent, PyInt(2)) :
        q \in {QSelect, QDirective}}

InitRows ==
    /\ ENGINE_CACHE = {}
    /\ engines = <<>>
    /\ conns = <<>>
    /\ served = {}
    /\ nrows \in 1..MaxRows
    /\ driver \in Drivers
    /\ pc = [i \in Inv |-> "idle"]
    /\ params = [i \in Inv |-> <<>>]
    /\ page = [i \in Inv |-> 0]
    /\ pagesize = [i \in Inv |-> 0]
    /\ key = [i \in Inv |-> <<>>]
    /\ engine = [i \in Inv |-> 0]
    /\ conn = [i \in Inv |-> 0]
    /\ stmts = [i \in Inv |-> <<>>]
    /\ total = [i \in Inv |-> 0]
    /\ totalFrom = [i \in Inv |-> 0]
    /\ result = [i \in Inv |-> <<>>]
    /\ out = [i \in Inv |-> <<>>]
    /\ emitted = [i \in Inv |-> 0]
    /\ raised = [i \in Inv |-> ""]

InvokeRows == \E p \in RowRequests : Invoke(1, p)

NextRows ==
    \/ InvokeRows
    \/ Run(1)

SpecRows == InitRows /\ [][NextRows]_vars

(***************************************************************************)
(* Vocabulary of the properties.                                           *)
(***************************************************************************)
\* The ConnectionIdentity an engine was created for.
EngineIdentity(e) ==
    [host |-> engines[e].host, port |-> IntToStr(engines[e].port),
     user |-> engines[e].username, database |-> engines[e].database]

\* Invocation i is executing _get_engine.
InGetEngine(i) == pc[i] \in {"get_engine", "create_engine", "return_engine"}

\* The message invocation i is handing to the host.
Handing(i, tag) == out[i] # <<>> /\ out[i][1].tag = tag

\* Invocation i holds a connection of the with block.
InWith(i) ==
    pc[i] \in {"exec_count", "exec_page", "exec_single_pass", "exec_found_rows",
               "raising", "process", "yield_with"}

(***************************************************************************)
(* C1.  When several invocations with the same ConnectionIdentity run      *)
(* _get_engine concurrently and none has created a source yet, at most one *)
(* engine is created for that identity and all of them receive that engine.*)
(* Stated of Spec, it is violated: `key not in ENGINE_CACHE` (line 30) and *)
(* `ENGINE_CACHE[key] = engine` (line 52) are not one atomic step.         *)
(***************************************************************************)
C1_OneSourcePerIdentity ==
    /\ \A a, b \in 1..Len(engines) :
           EngineIdentity(a) = EngineIdentity(b) => a = b
    /\ \A a, b \in served : a.identity = b.identity => a.engine = b.engine

(***************************************************************************)
(* C2.  For any sequence of non-overlapping invocations, the number of     *)
(* engines created equals the number of distinct ConnectionIdentities      *)
(* looked up: the first lookup of an identity creates one engine and every *)
(* later lookup of that identity returns that same engine.                 *)
(* Stated of SpecSeq, it is violated: the key of line 24 joins the fields  *)
(* with ':', so two identities can share one key and one engine.           *)
(***************************************************************************)
C2_SourcesEqualIdentities ==
    /\ (\A i \in Inv : ~InGetEngine(i)) =>
           Len(engines) = Cardinality({a.identity : a \in served})
    /\ \A a, b \in served : a.identity = b.identity => a.engine = b.engine

(***************************************************************************)
(* C3.  Every connection an invocation acquires is returned to the pool on *)
(* every exit path: an invocation that has left the with block (it yields  *)
(* outside it, or has finished) holds no connection, and every connection  *)
(* the pool counts as checked out is the one held by an invocation that is *)
(* still inside its with block.                                            *)
(***************************************************************************)
C3_ConnectionsReleased ==
    /\ \A i \in Inv : ~InWith(i) => conn[i] = 0
    /\ \A c \in ConnIds :
           conns[c].holder # 0 =>
               /\ InWith(conns[c].holder)
               /\ conn[conns[c].holder] = c

\* Both invocations have finished, one of them after executing a statement
\* on a connection, and no connection is checked out.
C3_Witness ==
    /\ \A i \in Inv : pc[i] = "done"
    /\ \E c \in ConnIds : conns[c].found.by \in Inv
    /\ \A c \in ConnIds : conns[c].holder = 0

(***************************************************************************)
(* C4.  An invocation whose trimmed, upper-cased query does not start with *)
(* SELECT is rejected with the SELECT-only message, acquires no connection *)
(* and executes no statement.  Stated of SpecOne for the invocations whose *)
(* query is not blank and whose page and pagesize convert, it is violated: *)
(* the engine is looked up (line 131) before the SELECT check (line 134),  *)
(* so a port that int() rejects ends the invocation with the message of    *)
(* line 254.                                                               *)
(***************************************************************************)
PassesPagination(i) ==
    /\ PyIntOf(DictGet(params[i].page, PyInt(DefaultPage))).ok
    /\ PyIntOf(DictGet(params[i].pagesize, PyInt(DefaultPageSize))).ok

NonBlankQuery(i) ==
    /\ ParamQuery(i).t = "str"
    /\ \E k \in 1..Len(Query(i)) : Query(i)[k] \notin Whitespace

NotSelect(q) ==
    LET t == StrUpper(StrStrip(q))
    IN  Len(t) < 6 \/ SubSeq(t, 1, 6) # SelectWord

C4_NonSelectRejected ==
    \A i \in Inv :
        (params[i] # <<>> /\ NonBlankQuery(i) /\ PassesPagination(i)
            /\ NotSelect(Query(i))) =>
            /\ conn[i] = 0
            /\ stmts[i] = <<>>
            /\ out[i] # <<>> => Handing(i, "select_only")

(***************************************************************************)
(* C5.  Validation precedes pool acquisition: an invocation rejected by    *)
(* validation (empty query, non-numeric pagination, no SELECT) neither     *)
(* looks up nor creates an engine.  Stated of SpecOne, whose registry      *)
(* starts empty, it is violated: a query that does not start with SELECT   *)
(* is rejected at line 134, after _get_engine (line 131) has created and   *)
(* cached an engine.                                                       *)
(***************************************************************************)
C5_ValidationBeforeLookup ==
    \A i \in Inv :
        (\E t \in {"empty_query", "invalid_pagination", "select_only"} :
             Handing(i, t)) =>
            /\ key[i] = <<>>
            /\ engine[i] = 0
            /\ ENGINE_CACHE = {}
            /\ engines = <<>>

(***************************************************************************)
(* C6.  A lookup with malformed connection parameters (a non-numeric port  *)
(* or an empty host) returns no engine and leaves no entry for its         *)
(* identity in ENGINE_CACHE.  Stated of SpecSeq, it is violated: nothing   *)
(* rejects an empty host, for which an engine is created and cached.       *)
(***************************************************************************)
Malformed(i) ==
    \/ PyFormat(ParamHost(i)) = <<>>
    \/ ~PyIntOf(ParamPort(i)).ok

C6_MalformedRejected ==
    \A i \in Inv :
        (params[i] # <<>> /\ Malformed(i)) =>
            /\ engine[i] = 0
            /\ ~CacheHas(GetConnectionKey(ParamHost(i), ParamPort(i),
                                          ParamUser(i), ParamDatabase(i)))

(***************************************************************************)
(* C7.  For integer-convertible page and pagesize the page used and        *)
(* returned is max(1, page), the pagesize used and returned is             *)
(* max(1, min(100, pagesize)) and the page statement carries that LIMIT    *)
(* and the OFFSET (page-1)*pagesize; for a non-numeric page or pagesize    *)
(* the invocation ends with the invalid-pagination message.  Stated of     *)
(* SpecOne for the invocations whose query is not blank, the second half   *)
(* is violated: with an infinite float page and a non-numeric pagesize,    *)
(* int(page) (line 122) raises OverflowError, which the handler of line    *)
(* 124 does not catch, and the invocation ends with no message.            *)
(***************************************************************************)
PageInput(i) == DictGet(params[i].page, PyInt(DefaultPage))

PageSizeInput(i) == DictGet(params[i].pagesize, PyInt(DefaultPageSize))

NonNumeric(v) == PyIntOf(v).exc \in {"ValueError", "TypeError"}

IsPageStatement(sql) == sql # FoundRowsQuery /\ ~IsCountStatement(sql)

C7_Clamped ==
    \A i \in Inv :
        (params[i] # <<>> /\ NonBlankQuery(i) /\ PassesPagination(i)) =>
            LET pg == PyIntOf(PageInput(i)).n
                ps == PyIntOf(PageSizeInput(i)).n
                cpg == IF pg < 1 THEN 1 ELSE pg
                cps == IF ps < 1 THEN 1 ELSE IF ps > 100 THEN 100 ELSE ps
            IN  /\ page[i] = cpg
                /\ pagesize[i] = cps
                /\ Handing(i, "result") =>
                       out[i][1].page = cpg /\ out[i][1].pagesize = cps
                /\ \A k \in 1..Len(stmts[i]) :
                       IsPageStatement(stmts[i][k]) =>
                           /\ DbLimit(stmts[i][k]) = cps
                           /\ DbOffset(stmts[i][k]) = (cpg - 1) * cps

C7_NonNumericRejected ==
    \A i \in Inv :
        (params[i] # <<>> /\ NonBlankQuery(i)
            /\ (NonNumeric(PageInput(i)) \/ NonNumeric(PageSizeInput(i)))) =>
            /\ pc[i] = "yield_out"
            /\ Handing(i, "invalid_pagination")

C7_Pagination == C7_Clamped /\ C7_NonNumericRejected

(***************************************************************************)
(* C8.  When the query text contains SQL_CALC_FOUND_ROWS in any letter     *)
(* case, a successful invocation has issued exactly two statements: first  *)
(* the page statement (the query with LIMIT and OFFSET), then              *)
(* SELECT FOUND_ROWS().  At no point has such an invocation issued a       *)
(* SELECT COUNT(1) statement, or SELECT FOUND_ROWS() as its first          *)
(* statement.                                                              *)
(***************************************************************************)
MentionsDirective(q) ==
    LET u == StrUpper(q)
    IN  \E k \in 1..Len(u) :
            k + Len(Directive) - 1 <= Len(u)
                /\ SubSeq(u, k, k + Len(Directive) - 1) = Directive

PageStatementText(i) ==
    Query(i) \o LimitWord \o IntToStr(pagesize[i]) \o OffsetWord
        \o IntToStr((page[i] - 1) * pagesize[i])

C8_SinglePassStatements ==
    \A i \in Inv :
        (params[i] # <<>> /\ NonBlankQuery(i) /\ MentionsDirective(Query(i))) =>
            /\ Handing(i, "result") =>
                   stmts[i] = <<PageStatementText(i), FoundRowsQuery>>
            /\ \A k \in 1..Len(stmts[i]) : ~IsCountStatement(stmts[i][k])
            /\ stmts[i] # <<>> => stmts[i][1] = PageStatementText(i)

\* A query that spells the directive in lower case has succeeded.
C8_Witness ==
    /\ params[1] # <<>>
    /\ ParamQuery(1) = QDirectiveLower
    /\ Handing(1, "result")
    /\ Len(stmts[1]) = 2
    /\ stmts[1][2] = FoundRowsQuery

(***************************************************************************)
(* C9.  When the query text does not contain the directive, a successful   *)
(* invocation has issued exactly two statements: first                     *)
(* SELECT COUNT(1) FROM (<query>) AS total_count, then                     *)
(* <query> LIMIT <pagesize> OFFSET <(page-1)*pagesize>.  At no point has   *)
(* such an invocation issued SELECT FOUND_ROWS().                          *)
(***************************************************************************)
CountStatementText(i) ==
    <<"S", "E", "L", "E", "C", "T", " ", "C", "O", "U", "N", "T", "(", "1",
      ")", " ", "F", "R", "O", "M", " ", "(">> \o Query(i)
        \o <<")", " ", "A", "S", " ", "t", "o", "t", "a", "l", "_", "c", "o",
             "u", "n", "t">>

C9_TwoQueryStatements ==
    \A i \in Inv :
        (params[i] # <<>> /\ NonBlankQuery(i) /\ ~MentionsDirective(Query(i))) =>
            /\ Handing(i, "result") =>
                   stmts[i] = <<CountStatementText(i), PageStatementText(i)>>
            /\ \A k \in 1..Len(stmts[i]) : stmts[i][k] # FoundRowsQuery
            /\ stmts[i] # <<>> => stmts[i][1] = CountStatementText(i)

\* A query without the directive has succeeded on a page beyond the first
\* with a page size above one.
C9_Witness ==
    /\ params[1] # <<>>
    /\ ParamQuery(1) = QSelect
    /\ Handing(1, "result")
    /\ Len(stmts[1]) = 2
    /\ page[1] > 1
    /\ pagesize[1] > 1

(***************************************************************************)
(* C10.  With overlapping invocations sharing one engine, an invocation    *)
(* inside its with block holds one connection of that engine, which no     *)
(* other invocation holds; after each of its statements that succeeded,    *)
(* the last statement run on that connection is its own; and the count     *)
(* that SELECT FOUND_ROWS() returns to it was produced by its own page     *)
(* statement.                                                              *)
(***************************************************************************)
C10_SameConnection ==
    \A i \in Inv :
        /\ InWith(i) =>
               /\ conn[i] \in ConnIds
               /\ conns[conn[i]].holder = i
               /\ conns[conn[i]].engine = engine[i]
               /\ \A j \in Inv \ {i} : conn[j] # conn[i]
        /\ pc[i] \in {"exec_page", "exec_found_rows", "process", "raising"} =>
               conns[conn[i]].found.by = i
        /\ totalFrom[i] # 0 => totalFrom[i] = i

\* Two invocations are inside their with blocks at once; one has read its
\* count with SELECT FOUND_ROWS(), the other has executed a statement.
C10_Witness ==
    \E i, j \in Inv :
        /\ i # j
        /\ pc[i] = "process"
        /\ stmts[i] # <<>>
        /\ stmts[i][Len(stmts[i])] = FoundRowsQuery
        /\ totalFrom[i] = i
        /\ InWith(j)
        /\ stmts[j] # <<>>

(***************************************************************************)
(* C11.  For a SELECT query whose unpaginated result is the rows 1..nrows, *)
(* the envelope's data is the rows (page-1)*pagesize+1 ..                  *)
(* min(page*pagesize, nrows), in order, at most pagesize of them, its      *)
(* total is nrows, and page and pagesize are the clamped ones.  Stated of  *)
(* SpecOne, it is violated in total: a query that contains the letters of  *)
(* the directive where the server does not read them as the SELECT         *)
(* modifier takes the single-pass branch (line 144), and FOUND_ROWS() then *)
(* returns the rows found up to the end of the LIMIT window, not nrows.    *)
(***************************************************************************)
C11_PageSlice ==
    \A i \in Inv :
        Handing(i, "result") =>
            LET m == out[i][1]
                lo == (m.page - 1) * m.pagesize
                hi == IF m.page * m.pagesize < nrows THEN m.page * m.pagesize
                      ELSE nrows
            IN  /\ m.page = page[i] /\ m.page >= 1
                /\ m.pagesize = pagesize[i] /\ m.pagesize \in 1..100
                /\ Len(m.data) = (IF hi > lo THEN hi - lo ELSE 0)
                /\ Len(m.data) <= m.pagesize
                /\ \A x \in 1..Len(m.data) :
                       m.data[x] = <<[k |-> "id", v |-> PyInt(lo + x)]>>
                /\ m.total = nrows

(***************************************************************************)
(* C12.  Every invocation, whatever its inputs and whichever step fails,   *)
(* hands exactly one message to the host and lets no exception leave       *)
(* _invoke: no invocation has raised, none has handed over more than one   *)
(* message, and a finished one has handed over exactly one.  Stated of     *)
(* SpecOne, it is violated: query.strip() (line 115) on a query that is    *)
(* not a string, and int() of an infinite float (lines 122-123), raise     *)
(* outside every try that would catch them.                                *)
(***************************************************************************)
C12_OneMessageNoException ==
    \A i \in Inv :
        /\ raised[i] = ""
        /\ emitted[i] <= 1
        /\ pc[i] = "done" => emitted[i] = 1

(***************************************************************************)
(* C13.  Every connectivity failure met while obtaining a connection (the  *)
(* pool's acquisition timeout, a TCP connect timeout, a rejected login)    *)
(* ends the invocation with the connection-failed message of line 249,     *)
(* not with the generic message of line 254.  Stated of SpecFull, it is    *)
(* violated: the pool's TimeoutError is no OperationalError, so the        *)
(* handler of line 251 answers it.                                         *)
(***************************************************************************)
FailedToConnect(i) ==
    /\ pc[i] = "yield_out"
    /\ engine[i] # 0
    /\ stmts[i] = <<>>
    /\ out[i][1].detail \in {"OperationalError", "TimeoutError"}

C13_ConnectivityMessage ==
    \A i \in Inv : FailedToConnect(i) => Handing(i, "connection_failed")

(***************************************************************************)
(* C14.  When a statement fails, no exception is raised and the invocation *)
(* hands over the message of the phase that failed: the count statement    *)
(* (line 151), the page statement of either strategy (lines 161, 169) or   *)
(* the count retrieval (line 178).  The statements the invocation has      *)
(* executed are then exactly those up to the failed one, each once; this   *)
(* message is its only one, and from there on it executes no statement and *)
(* hands over nothing else.                                                *)
(***************************************************************************)
PhaseFailed(i) ==
    \E t \in {"count_failed", "page_failed", "query_failed",
              "found_rows_failed"} : Handing(i, t)

C14_PhaseStatements ==
    \A i \in Inv :
        /\ Handing(i, "count_failed") => stmts[i] = <<CountStatementText(i)>>
        /\ Handing(i, "page_failed") =>
               stmts[i] = <<CountStatementText(i), PageStatementText(i)>>
        /\ Handing(i, "query_failed") => stmts[i] = <<PageStatementText(i)>>
        /\ Handing(i, "found_rows_failed") =>
               stmts[i] = <<PageStatementText(i), FoundRowsQuery>>
        /\ PhaseFailed(i) => raised[i] = "" /\ emitted[i] = 1
        /\ (Handing(i, "count_failed") \/ Handing(i, "page_failed")) =>
               ~MentionsDirective(Query(i))
        /\ (Handing(i, "query_failed") \/ Handing(i, "found_rows_failed")) =>
               MentionsDirective(Query(i))

C14_NothingAfterFailure ==
    \A i \in Inv :
        PhaseFailed(i) =>
            /\ Len(stmts'[i]) <= Len(stmts[i])
            /\ emitted'[i] = emitted[i]
            /\ raised'[i] = ""

C14_StatementFailure == []C14_PhaseStatements /\ [][C14_NothingAfterFailure]_vars

\* SELECT FOUND_ROWS() has failed after the page statement succeeded.
C14_Witness ==
    /\ Handing(1, "found_rows_failed")
    /\ Len(stmts[1]) = 2
    /\ pc[1] = "yield_with"

(***************************************************************************)
(* C15.  The registry key does not depend on the password: in every        *)
(* reachable state, requests with equal (host, port, user, database) and   *)
(* different passwords have been served the same engine, and a request     *)
(* with another password neither changes an engine nor creates one.        *)
(* Stated of SpecPw, it is violated: two overlapping first lookups of one  *)
(* identity each create an engine, each with its own password (the         *)
(* unsynchronized check-then-insert of lines 30-52).                       *)
(***************************************************************************)
C15_PasswordIndependent ==
    /\ \A a, b \in served :
           (a.identity = b.identity /\ a.password # b.password) =>
               a.engine = b.engine
    /\ \A a \in served :
           \A e \in 1..Len(engines) :
               (EngineIdentity(e) = a.identity
                   /\ engines[e].password # a.password) => e = a.engine

(***************************************************************************)
(* C16.  For a row that exposes only positional values, the record has one *)
(* entry per column name, in column order: the i-th column name with the   *)
(* i-th value of the row when the row has one, with null when it has none; *)
(* the values beyond the last column are dropped.  No failure of the       *)
(* conversion of such a row ends the invocation.                           *)
(***************************************************************************)
\* The table row behind the x-th record of the envelope m.
EnvelopeRow(m, x) ==
    <<PyInt((m.page - 1) * m.pagesize + x)>> \o driver.values

\* What a driver value looks like in a record.
Scalar(v) ==
    IF v.t \in {"none", "str", "int", "float", "inf", "bool"} THEN v
    ELSE PyStr(PyStrText(v))

C16_PositionalRecord ==
    \A i \in Inv :
        driver.kind = "positional" =>
            /\ ~(Handing(i, "processing_failed")
                    /\ out[i][1].detail = "TypeError")
            /\ Handing(i, "result") =>
                   \A x \in 1..Len(out[i][1].data) :
                       LET rec == out[i][1].data[x]
                           row == EnvelopeRow(out[i][1], x)
                       IN  /\ Len(rec) = Len(driver.columns)
                           /\ \A c \in 1..Len(rec) :
                                  /\ rec[c].k = driver.columns[c]
                                  /\ rec[c].v = IF c <= Len(row)
                                                THEN Scalar(row[c])
                                                ELSE PyNone

\* An envelope built from positional rows of two values under three
\* columns.
C16_Witness ==
    /\ driver.kind = "positional"
    /\ Len(driver.columns) = 3
    /\ Len(driver.values) = 1
    /\ Handing(1, "result")
    /\ Len(out[1][1].data) = 2

\* The reading in which the record stops at the shorter of the two
\* lengths.
C16_TruncatedAtShorter ==
    \A i \in Inv :
        (driver.kind = "positional" /\ Handing(i, "result")) =>
            \A x \in 1..Len(out[i][1].data) :
                Len(out[i][1].data[x]) =
                    Min(Len(driver.columns), Len(EnvelopeRow(out[i][1], x)))

(***************************************************************************)
(* C17.  Every value of every record of an emitted envelope is None, a     *)
(* string, a number or a boolean: a driver value of one of these kinds is  *)
(* the value itself, a driver value of another kind (bytes, Decimal) is    *)
(* its str(); whichever of the three conversions built the record.         *)
(***************************************************************************)
C17_JsonSafeValues ==
    \A i \in Inv :
        Handing(i, "result") =>
            \A x \in 1..Len(out[i][1].data) :
                LET rec == out[i][1].data[x]
                    row == EnvelopeRow(out[i][1], x)
                IN  \A c \in 1..Len(rec) :
                        /\ rec[c].v.t \in {"none", "str", "int", "float", "inf",
                                           "bool"}
                        /\ c <= Len(row) =>
                               /\ row[c].t \in {"none", "str", "int", "float",
                                                "inf", "bool"} =>
                                      rec[c].v = row[c]
                               /\ row[c].t = "bytes" =>
                                      rec[c].v = PyStr(<<"b", "'">> \o row[c].s
                                                           \o <<"'">>)
                               /\ row[c].t = "decimal" =>
                                      rec[c].v = PyStr(PyStrText(row[c]))

\* An envelope whose records were built by the third conversion from rows
\* that carry a Decimal.
C17_Witness ==
    /\ driver.kind = "broken"
    /\ driver.indexable
    /\ \E c \in 1..Len(driver.values) :
           /\ driver.values[c].t = "decimal"
           /\ c + 1 <= Len(driver.columns)
    /\ Handing(1, "result")
    /\ out[1][1].data # <<>>

(***************************************************************************)
(* C18.  The registry key is injective on identities: two requests are     *)
(* served the same engine only if their (host, port, user, database) are   *)
(* equal.  Stated of SpecSeq, it is violated: the fields are joined with   *)
(* ':' (line 24), so user "a:b" with database "c" and user "a" with        *)
(* database "b:c" have one key and the second is served the engine of the  *)
(* first.                                                                  *)
(***************************************************************************)
C18_KeyInjective ==
    \A a, b \in served : a.engine = b.engine => a.identity = b.identity

(***************************************************************************)
(* C19.  At the moment an invocation hands its message to the host it      *)
(* holds no checked-out connection.  Stated of SpecOne, it is violated:    *)
(* the failure messages of lines 152, 162, 170, 179 and 229 are yielded    *)
(* inside the with block of line 142, before _safe_connection's finally    *)
(* has run.                                                                *)
(***************************************************************************)
C19_ReleasedBeforeEmission ==
    \A i \in Inv :
        out[i] # <<>> =>
            /\ conn[i] = 0
            /\ \A c \in ConnIds : conns[c].holder # i

(***************************************************************************)
(* C20.  Under LiveFull, every started invocation eventually finishes,     *)
(* having handed over its message and holding no connection, even when     *)
(* every connection of the pool is checked out elsewhere when it starts.   *)
(* It is violated: an invocation whose page is an infinite float is ended  *)
(* by the OverflowError of line 122 and never hands over a message.        *)
(***************************************************************************)
C20_EventuallyFinished ==
    \A i \in Inv :
        (pc[i] # "idle") ~>
            (pc[i] = "done" /\ emitted[i] = 1 /\ conn[i] = 0)

=============================================================================
